---- MODULE Spec2Model ----
(***************************************************************************)
(* Real-Time Lighting Designer (Blender add-on): the managed-lights mirror *)
(* (scene.rtld_props.lights), the host objects (bpy.data.objects of the    *)
(* scene), the stored profiles, the operators of the add-on and the        *)
(* depsgraph_update_post hook.                                             *)
(*                                                                         *)
(* Representation.                                                         *)
(*  - An object name is the record [pre, base, num] standing for the       *)
(*    string  "RTLD_" * pre  ++  base  ++  (".%03d" % num if num > 0).     *)
(*    name.startswith(PREFIX) is pre >= 1; PREFIX + name is pre + 1.       *)
(*  - Floats are integers: colours and sizes in 1/100, energies, locations *)
(*    and rotations in 1/10, spot angles in 1/1000000.                     *)
(*  - A host object is one record: its placement (name, type, location,    *)
(*    rotation_euler) and its light data block (ltype, color, energy,      *)
(*    size, spot_size, use_shadow).  Every object owns its data block.     *)
(*    The data block keeps size and spot_size whatever its type; the       *)
(*    attribute is visible only on the type that has it (HasAttr).         *)
(*  - A JSON text is a sequence of tokens; json.dumps writes it and        *)
(*    json.loads parses it (a dict is one token).                          *)
(* Left out: the render engine (set_engine reads props.engine and writes   *)
(* scene.render.engine, nothing else), and selected_light_name, which      *)
(* add_light assigns and nothing reads.                                    *)
(***************************************************************************)
EXTENDS Integers, Sequences, FiniteSets, TLC

VARIABLES objects, lights, active_light_index,
          profiles, profile_name, realtime_preview, last, edits

vars == <<objects, lights, active_light_index,
          profiles, profile_name, realtime_preview, last, edits>>

(* ------------------------------ bounds -------------------------------- *)
\* objects in the scene beyond which add_light is not run
MaxObjects == 2
\* objects in the scene beyond which the user adds none by hand
MaxUserObjects == 1
\* stored profiles
MaxProfiles == 2
\* values the user changes by hand: object fields, record fields and names,
\* the profile name, deleted objects, stored texts
MaxEdits == 1
\* "RTLD_" prefixes one name may carry (each save/load cycle adds one)
MaxPre == 2

(* ------------------------- program constants -------------------------- *)
DefaultEnergy == 100
DefaultSize == 25
DefaultSpotSize == 785398
ColorMax == 100

LightTypes == {"POINT", "SUN", "SPOT", "AREA"}

Name(p, b, n) == [pre |-> p, base |-> b, num |-> n]

\* _rtld_light_name: PREFIX + name
_rtld_light_name(name) == [name EXCEPT !.pre = @ + 1]

\* ob.name.startswith(PREFIX)
StartsWithPrefix(name) == name.pre >= 1

White == <<100, 100, 100>>
Origin == <<0, 0, 0>>

(* ------------------------------ helpers ------------------------------- *)
Min(S) == CHOOSE x \in S : \A y \in S : x <= y

Max2(a, b) == IF a >= b THEN a ELSE b

Min2(a, b) == IF a <= b THEN a ELSE b

RemoveAt(s, i) == [k \in 1..(Len(s) - 1) |-> IF k < i THEN s[k] ELSE s[k + 1]]

ObjectNames(objs) == {objs[i].name : i \in 1..Len(objs)}

\* bpy.data.objects.get(name): the index of the object of that name, 0 for None
ObjectIndex(objs, name) ==
    IF \E i \in 1..Len(objs) : objs[i].name = name
    THEN CHOOSE i \in 1..Len(objs) : objs[i].name = name
    ELSE 0

\* the host's answer to a name already taken: the smallest free ".NNN"
UniqueName(name, taken) ==
    IF name \notin taken THEN name
    ELSE [name EXCEPT !.num =
              Min({k \in 1..(Cardinality(taken) + 1) :
                       [name EXCEPT !.num = k] \notin taken})]

\* hasattr(ld, attr) / the attribute exists on the light type
HasAttr(ltype, attr) ==
    \/ attr = "size" /\ ltype = "AREA"
    \/ attr = "spot_size" /\ ltype = "SPOT"

\* FloatVectorProperty(min=0.0, max=1.0): a stored colour is clamped
ClampChannel(c) == Max2(0, Min2(c, ColorMax))

ClampColor(color) == <<ClampChannel(color[1]), ClampChannel(color[2]), ClampChannel(color[3])>>

(* --------------------------- host objects ----------------------------- *)
\* a light object as bpy.data.lights.new / bpy.data.objects.new make it
NewLight(name, light_type) ==
    [name |-> name, type |-> "LIGHT", ltype |-> light_type, color |-> White,
     energy |-> DefaultEnergy, size |-> DefaultSize, spot_size |-> DefaultSpotSize,
     use_shadow |-> TRUE, location |-> Origin, rotation |-> Origin]

\* an object that is no light (its data block is a mesh, or None for an empty)
NewOther(name, type) ==
    [NewLight(name, "NONE") EXCEPT !.type = type]

\* create_light: the new object is appended and is the last of the result
create_light(objs, name, light_type) ==
    Append(objs, NewLight(UniqueName(_rtld_light_name(name), ObjectNames(objs)), light_type))

\* find_rtld_lights: the scene's objects that are lights named RTLD_...
IsLight(ob) == ob.type = "LIGHT"

NotLight(ob) == ~IsLight(ob)

IsRtldLight(ob) == IsLight(ob) /\ StartsWithPrefix(ob.name)

find_rtld_lights(objs) == SelectSeq(objs, IsRtldLight)

\* remove_light_obj raises after removing the object when the object's data
\* block is a mesh no other object uses: bpy.data.lights.remove refuses it;
\* an empty has no data block and nothing more is removed
RemoveRaises(ob) == ob.type = "MESH"

\* remove_light_obj leaving the object in bpy.data.objects
remove_light_obj_kept(objs, i) == objs

remove_light_obj(objs, i) == RemoveAt(objs, i)

NotRtldLight(ob) == ~IsRtldLight(ob)

\* the removal loop removing nothing
RemoveNoLights(objs) == objs

\* the removal loop taking every light of the scene, prefixed or not
RemoveAllLights(objs) == SelectSeq(objs, NotLight)

\* for ob in list(find_rtld_lights(context)): remove_light_obj(ob)
RemoveRtldLights(objs) == SelectSeq(objs, NotRtldLight)

(* ----------------------- the mirror (RTLDLightSpec) ------------------- *)
\* getattr(ob.data, attr, default)
GetAttr(ob, attr, default) ==
    IF HasAttr(ob.ltype, attr) THEN ob[attr] ELSE default

\* lights.add() followed by the nine assignments from the host object
SpecFromObject(ob) ==
    [name |-> ob.name, type |-> ob.ltype, color |-> ClampColor(ob.color),
     energy |-> ob.energy, size |-> GetAttr(ob, "size", DefaultSize),
     spot_size |-> GetAttr(ob, "spot_size", DefaultSpotSize),
     use_shadow |-> ob.use_shadow, location |-> ob.location, rotation |-> ob.rotation]

SpecsFromObjects(obs) == [k \in 1..Len(obs) |-> SpecFromObject(obs[k])]

(* ------------------------------- JSON --------------------------------- *)
\* A text is a sequence of tokens: "[" and "]", a number, or a dict written
\* out in full ({"key": value, ...}), which is one token holding its pairs.
Tok(t) == [tok |-> t, val |-> <<>>]

Num(n) == [tok |-> "num", val |-> <<>>]

Dict(pairs) == [tok |-> "dict", val |-> pairs]

Pair(k, v) == [key |-> k, val |-> v]

\* the dict of one record without its last key
ItemTextNoRotation(ls) ==
    Dict(<<Pair("name", ls.name), Pair("type", ls.type), Pair("color", ls.color),
           Pair("energy", ls.energy), Pair("size", ls.size),
           Pair("spot_size", ls.spot_size), Pair("use_shadow", ls.use_shadow),
           Pair("location", ls.location)>>)

\* the dict save_profile builds for one record
ItemText(ls) ==
    Dict(<<Pair("name", ls.name), Pair("type", ls.type), Pair("color", ls.color),
           Pair("energy", ls.energy), Pair("size", ls.size),
           Pair("spot_size", ls.spot_size), Pair("use_shadow", ls.use_shadow),
           Pair("location", ls.location), Pair("rotation", ls.rotation)>>)

\* json.dumps(arr)
JsonDumps(arr) ==
    <<Tok("[")>> \o [k \in 1..Len(arr) |-> ItemText(arr[k])] \o <<Tok("]")>>

JsonBad == [ok |-> FALSE, kind |-> "none", items |-> <<>>]

JsonArray(items) == [ok |-> TRUE, kind |-> "array", items |-> items]

JsonObject(pairs) == [ok |-> TRUE, kind |-> "object", items |-> pairs]

JsonNumber == [ok |-> TRUE, kind |-> "number", items |-> <<>>]

IsValueToken(t) == t.tok \in {"num", "dict"}

\* the value one token stands for
ValueOf(t) == IF t.tok = "num" THEN JsonNumber ELSE JsonObject(t.val)

\* json.loads(text): ok is FALSE where json.loads raises (no value, a list
\* that is not closed, text after the value)
JsonLoads(text) ==
    IF Len(text) = 1 /\ IsValueToken(text[1]) THEN ValueOf(text[1])
    ELSE IF /\ Len(text) >= 2
            /\ text[1].tok = "[" /\ text[Len(text)].tok = "]"
            /\ \A i \in 2..(Len(text) - 1) : IsValueToken(text[i])
         THEN JsonArray([k \in 1..(Len(text) - 2) |-> ValueOf(text[k + 1])])
    ELSE JsonBad

HasKey(item, key) == \E k \in 1..Len(item.items) : item.items[k].key = key

\* item.get(key, default); json.loads keeps the last of two equal keys
ItemGet(item, key, default) ==
    IF HasKey(item, key)
    THEN item.items[CHOOSE k \in 1..Len(item.items) :
                        /\ item.items[k].key = key
                        /\ \A m \in (k + 1)..Len(item.items) : item.items[m].key # key].val
    ELSE default

(* --------------------------- preset recipes --------------------------- *)
Recipe(b, t, loc, rot, e, col, sz, sp) ==
    [base |-> b, ltype |-> t, location |-> loc, rotation |-> rot, energy |-> e,
     color |-> col, size |-> sz, spot_size |-> sp]

Presets == {"THREE_POINT", "CINEMATIC", "SUNSET", "STUDIO", "COOL_AMBIENT"}

\* the lights each branch of apply_preset creates, in the order of `created`;
\* a field the branch does not assign keeps the value create_light gave it
PresetRecipe(preset) ==
    CASE preset = "THREE_POINT" ->
           <<Recipe("Key", "SPOT", <<25, -20, 20>>, <<9, 0, 23>>, 12000, <<100, 95, 90>>,
                    DefaultSize, 900000),
             Recipe("Fill", "AREA", <<-20, -15, 15>>, <<11, 0, -5>>, 4000, <<90, 95, 100>>,
                    150, DefaultSpotSize),
             Recipe("Rim", "SUN", <<-30, 30, 40>>, Origin, 30, <<100, 80, 60>>,
                    DefaultSize, DefaultSpotSize)>>
      [] preset = "CINEMATIC" ->
           <<Recipe("CineKey", "SPOT", <<40, -30, 30>>, Origin, 16000, <<100, 85, 78>>,
                    DefaultSize, 600000),
             Recipe("CineRim", "SUN", <<-40, 40, 60>>, Origin, 25, <<100, 50, 30>>,
                    DefaultSize, DefaultSpotSize),
             Recipe("CineFill", "AREA", <<-15, -20, 14>>, Origin, 3000, White,
                    180, DefaultSpotSize)>>
      [] preset = "SUNSET" ->
           <<Recipe("SunsetSun", "SUN", Origin, <<9, 0, -7>>, 50, <<100, 40, 20>>,
                    DefaultSize, DefaultSpotSize),
             Recipe("WarmFill", "AREA", <<-20, -10, 12>>, Origin, 2000, <<100, 60, 50>>,
                    DefaultSize, DefaultSpotSize)>>
      [] preset = "STUDIO" ->
           <<Recipe("StudioLeft", "AREA", <<30, -10, 25>>, Origin, 8000, White,
                    300, DefaultSpotSize),
             Recipe("StudioRight", "AREA", <<-30, -10, 25>>, Origin, 6500, White,
                    300, DefaultSpotSize),
             Recipe("StudioRim", "SPOT", <<0, 50, 30>>, Origin, 3000, White,
                    DefaultSize, 1200000)>>
      [] preset = "COOL_AMBIENT" ->
           <<Recipe("CoolAmb", "AREA", <<0, -20, 20>>, Origin, 1500, <<60, 80, 100>>,
                    DefaultSize, DefaultSpotSize)>>
      [] OTHER -> <<>>

\* one create_light of a recipe and the assignments that follow it
CreateFromRecipe(objs, r) ==
    LET made == create_light(objs, Name(0, r.base, 0), r.ltype)
        n == Len(made)
    IN [made EXCEPT ![n].location = r.location, ![n].rotation = r.rotation,
                    ![n].energy = r.energy, ![n].color = r.color,
                    ![n].size = r.size, ![n].spot_size = r.spot_size]

RECURSIVE CreateAllFromRecipe(_, _)
CreateAllFromRecipe(objs, rs) ==
    IF rs = <<>> THEN objs
    ELSE CreateAllFromRecipe(CreateFromRecipe(objs, Head(rs)), Tail(rs))

(* ------------------------- the last operator run ---------------------- *)
\* op: the operator or hook that ran last, ret: what it returned ("ERROR": it
\* raised, "NONE": the hook returns nothing), index and preset: its argument,
\* report: the level of the message it reported, changed: whether
\* apply_light_props or the hook gave a host object a value it did not have
Did(op, ret) ==
    [op |-> op, ret |-> ret, index |-> 0, preset |-> "", report |-> "NONE",
     changed |-> FALSE]

CursorLocation == Origin

(* ------------------------------ operators ----------------------------- *)
\* RTLD_OT_add_light.execute
add_light(light_type) ==
    /\ Len(objects) < MaxObjects
    /\ LET made == create_light(objects, Name(0, light_type, 0), light_type)
           n == Len(made)
           objs == [made EXCEPT ![n].location = CursorLocation]
       IN /\ objects' = objs
          /\ lights' = Append(lights, [SpecFromObject(objs[n]) EXCEPT !.type = light_type])
          /\ active_light_index' = Len(lights)
    /\ last' = Did("add_light", "FINISHED")
    /\ UNCHANGED <<profiles, profile_name, realtime_preview>>

\* RTLD_OT_remove_light: poll, then execute
remove_light ==
    /\ Len(lights) > 0
    /\ LET idx == active_light_index IN
       IF idx < 0 \/ idx >= Len(lights)
       THEN /\ last' = Did("remove_light", "CANCELLED")
            /\ UNCHANGED <<objects, lights, active_light_index>>
       ELSE LET j == ObjectIndex(objects, lights[idx + 1].name) IN
            IF j # 0 /\ RemoveRaises(objects[j])
            THEN /\ objects' = remove_light_obj(objects, j)
                 /\ last' = Did("remove_light", "ERROR")
                 /\ UNCHANGED <<lights, active_light_index>>
            ELSE /\ objects' = IF j # 0 THEN remove_light_obj(objects, j) ELSE objects
                 /\ lights' = RemoveAt(lights, idx + 1)
                 /\ active_light_index' = Max2(0, Min2(idx - 1, Len(lights) - 2))
                 /\ last' = Did("remove_light", "FINISHED")
    /\ UNCHANGED <<profiles, profile_name, realtime_preview>>

\* RTLD_OT_sync_from_scene.execute
sync_from_scene ==
    /\ lights' = SpecsFromObjects(find_rtld_lights(objects))
    /\ last' = Did("sync_from_scene", "FINISHED")
    /\ UNCHANGED <<objects, active_light_index, profiles,
                   profile_name, realtime_preview>>

\* the assignments of apply_light_props ending at the first that raises
ApplySpecStopped(ob, spec, sized, spotted) ==
    IF sized /\ spotted
    THEN [ob EXCEPT !.ltype = spec.type, !.color = spec.color, !.energy = spec.energy,
                    !.size = spec.size, !.spot_size = spec.spot_size,
                    !.use_shadow = spec.use_shadow, !.location = spec.location,
                    !.rotation = spec.rotation]
    ELSE [ob EXCEPT !.ltype = spec.type, !.color = spec.color, !.energy = spec.energy,
                    !.size = IF sized THEN spec.size ELSE @]

\* the assignments of apply_light_props onto a light; sized and spotted say
\* whether ld.size and ld.spot_size took the value or raised and were passed
ApplySpec(ob, spec, sized, spotted) ==
    [ob EXCEPT !.ltype = spec.type, !.color = spec.color, !.energy = spec.energy,
               !.size = IF sized THEN spec.size ELSE @,
               !.spot_size = IF spotted THEN spec.spot_size ELSE @,
               !.use_shadow = spec.use_shadow, !.location = spec.location,
               !.rotation = spec.rotation]

\* RTLD_OT_apply_light_props: poll, then execute.  ld was read before ld.type
\* was assigned: whether ld.size resolves against the type ld had or the type
\* it has now is the host's choice, so both are outcomes
apply_light_props ==
    /\ 0 <= active_light_index /\ active_light_index < Len(lights)
    /\ LET spec == lights[active_light_index + 1]
           j == ObjectIndex(objects, spec.name)
       IN IF j = 0
          THEN /\ last' = [Did("apply_light_props", "CANCELLED") EXCEPT
                                   !.report = "WARNING"]
               /\ UNCHANGED objects
          ELSE IF objects[j].type # "LIGHT"
          THEN /\ last' = Did("apply_light_props", "ERROR")
               /\ UNCHANGED objects
          ELSE /\ \E t \in {objects[j].ltype, spec.type} :
                     objects' = [objects EXCEPT ![j] =
                                    ApplySpec(@, spec, HasAttr(t, "size"),
                                              HasAttr(t, "spot_size"))]
               /\ last' = [Did("apply_light_props", "FINISHED") EXCEPT
                                   !.changed = objects' # objects]
    /\ UNCHANGED <<lights, active_light_index, profiles,
                   profile_name, realtime_preview>>

\* RTLD_OT_apply_preset.execute
apply_preset(preset) ==
    /\ LET kept == RemoveRtldLights(objects)
           objs == CreateAllFromRecipe(kept, PresetRecipe(preset))
       IN /\ objects' = objs
          /\ lights' = SpecsFromObjects(SubSeq(objs, Len(kept) + 1, Len(objs)))
          /\ last' = [Did("apply_preset", "FINISHED") EXCEPT !.preset = preset]
    /\ active_light_index' = 0
    /\ UNCHANGED <<profiles, profile_name, realtime_preview>>

(* ------------------------------ profiles ------------------------------ *)
\* str.strip() on the profile name: a name is a sequence of words and " "
RECURSIVE LStrip(_)
LStrip(s) == IF s # <<>> /\ Head(s) = " " THEN LStrip(Tail(s)) ELSE s

RECURSIVE RStrip(_)
RStrip(s) == IF s # <<>> /\ s[Len(s)] = " " THEN RStrip(SubSeq(s, 1, Len(s) - 1)) ELSE s

Strip(s) == RStrip(LStrip(s))

\* RTLD_OT_save_profile: poll, then execute
save_profile ==
    /\ Len(lights) > 0
    /\ LET name == Strip(profile_name) IN
       IF name = <<>>
       THEN /\ last' = [Did("save_profile", "CANCELLED") EXCEPT !.report = "WARNING"]
            /\ UNCHANGED profiles
       ELSE /\ Len(profiles) < MaxProfiles
            /\ profiles' = Append(profiles, [name |-> name, data_json |-> JsonDumps(lights)])
            /\ last' = [Did("save_profile", "FINISHED") EXCEPT
                                !.index = Len(profiles), !.report = "INFO"]
    /\ UNCHANGED <<objects, lights, active_light_index,
                   profile_name, realtime_preview>>

ProfileLight == Name(0, "ProfileLight", 0)

ItemName(item) == ItemGet(item, "name", ProfileLight)

ItemType(item) == ItemGet(item, "type", "POINT")

\* the body of load_profile's loop for one item that is a dict of a known type
CreateFromItem(objs, item) ==
    LET made == create_light(objs, ItemName(item), ItemType(item))
        n == Len(made)
    IN [made EXCEPT
          ![n].color = ItemGet(item, "color", White),
          ![n].energy = ItemGet(item, "energy", DefaultEnergy),
          ![n].size = IF HasAttr(made[n].ltype, "size")
                      THEN ItemGet(item, "size", DefaultSize) ELSE @,
          ![n].spot_size = IF HasAttr(made[n].ltype, "spot_size")
                           THEN ItemGet(item, "spot_size", DefaultSpotSize) ELSE @,
          ![n].use_shadow = ItemGet(item, "use_shadow", TRUE),
          ![n].location = ItemGet(item, "location", Origin),
          ![n].rotation = ItemGet(item, "rotation", Origin)]

\* item.get raises on an item that is no dict, bpy.data.lights.new on a type
\* that is no light type
ItemRaises(item) == item.kind # "object" \/ ItemType(item) \notin LightTypes

\* for item in arr: ... ; the loop stops where an item raises
RECURSIVE LoadItems(_, _, _)
LoadItems(items, objs, ls) ==
    IF items = <<>> THEN [objects |-> objs, lights |-> ls, raised |-> FALSE]
    ELSE IF ItemRaises(Head(items)) THEN [objects |-> objs, lights |-> ls, raised |-> TRUE]
    ELSE LET made == CreateFromItem(objs, Head(items)) IN
         LoadItems(Tail(items), made, Append(ls, SpecFromObject(made[Len(made)])))

\* what `for item in arr` walks through: the elements of a list, the keys of
\* a dict (strings, on which item.get raises); a number is not iterable
Iterated(arr) ==
    IF arr.kind = "array" THEN arr.items
    ELSE [k \in 1..Len(arr.items) |-> JsonNumber]

\* the except clause with the scene's RTLD_ lights and the list already cleared
LoadAbortedLate(index) ==
    /\ last' = [Did("load_profile", "CANCELLED") EXCEPT !.index = index, !.report = "ERROR"]
    /\ objects' = RemoveRtldLights(objects)
    /\ lights' = <<>>
    /\ UNCHANGED active_light_index

\* except Exception as e: self.report({'ERROR'}, ...); return {'CANCELLED'}
LoadAborted(index) ==
    /\ last' = [Did("load_profile", "CANCELLED") EXCEPT !.index = index, !.report = "ERROR"]
    /\ UNCHANGED <<objects, lights, active_light_index>>

\* RTLD_OT_load_profile.execute
load_profile(index) ==
    /\ IF index < 0 \/ index >= Len(profiles)
       THEN /\ last' = [Did("load_profile", "CANCELLED") EXCEPT !.index = index]
            /\ UNCHANGED <<objects, lights, active_light_index>>
       ELSE LET arr == JsonLoads(profiles[index + 1].data_json) IN
            IF ~arr.ok
            THEN LoadAborted(index)
            ELSE LET kept == RemoveRtldLights(objects)
                 IN IF arr.kind = "number"
                    THEN /\ objects' = kept
                         /\ lights' = <<>>
                         /\ last' = [Did("load_profile", "ERROR") EXCEPT !.index = index]
                         /\ UNCHANGED active_light_index
                    ELSE /\ \A k \in 1..Len(Iterated(arr)) :
                               Iterated(arr)[k].kind = "object"
                                   => ItemName(Iterated(arr)[k]).pre < MaxPre
                         /\ LET got == LoadItems(Iterated(arr), kept, <<>>) IN
                            /\ objects' = got.objects
                            /\ lights' = got.lights
                            /\ IF got.raised
                               THEN /\ last' = [Did("load_profile", "ERROR") EXCEPT
                                                   !.index = index]
                                    /\ UNCHANGED active_light_index
                               ELSE /\ last' = [Did("load_profile", "FINISHED") EXCEPT
                                                   !.index = index, !.report = "INFO"]
                                    /\ active_light_index' = 0
    /\ UNCHANGED <<profiles, profile_name, realtime_preview>>

\* RTLD_OT_delete_profile.execute
delete_profile(index) ==
    /\ IF 0 <= index /\ index < Len(profiles)
       THEN /\ profiles' = RemoveAt(profiles, index + 1)
            /\ last' = [Did("delete_profile", "FINISHED") EXCEPT !.index = index]
       ELSE /\ last' = [Did("delete_profile", "CANCELLED") EXCEPT !.index = index]
            /\ UNCHANGED profiles
    /\ UNCHANGED <<objects, lights, active_light_index,
                   profile_name, realtime_preview>>

(* ------------------------ the depsgraph hook -------------------------- *)
\* the loop's body leaving out the last two assignments, location and rotation
PushSpecNoPlace(objs, ls) ==
    LET j == ObjectIndex(objs, ls.name) IN
    IF j = 0 \/ objs[j].type # "LIGHT" THEN objs
    ELSE [objs EXCEPT
            ![j].color = ls.color, ![j].energy = ls.energy,
            ![j].use_shadow = ls.use_shadow,
            ![j].size = IF HasAttr(objs[j].ltype, "size") THEN ls.size ELSE @,
            ![j].spot_size = IF HasAttr(objs[j].ltype, "spot_size") THEN ls.spot_size ELSE @]

\* the body of realtime_update's loop for one record: the try block raises at
\* its first assignment on an object whose data is no light, and is passed
PushSpec(objs, ls) ==
    LET j == ObjectIndex(objs, ls.name) IN
    IF j = 0 \/ objs[j].type # "LIGHT" THEN objs
    ELSE [objs EXCEPT
            ![j].color = ls.color, ![j].energy = ls.energy,
            ![j].use_shadow = ls.use_shadow,
            ![j].size = IF HasAttr(objs[j].ltype, "size") THEN ls.size ELSE @,
            ![j].spot_size = IF HasAttr(objs[j].ltype, "spot_size") THEN ls.spot_size ELSE @,
            ![j].location = ls.location, ![j].rotation = ls.rotation]

RECURSIVE PushSpecs(_, _)
PushSpecs(objs, lss) ==
    IF lss = <<>> THEN objs ELSE PushSpecs(PushSpec(objs, Head(lss)), Tail(lss))

\* realtime_update, the depsgraph_update_post handler register() installs
realtime_update ==
    /\ objects' = IF realtime_preview THEN PushSpecs(objects, lights) ELSE objects
    /\ last' = [Did("realtime_update", "NONE") EXCEPT !.changed = objects' # objects]
    /\ UNCHANGED <<lights, active_light_index, profiles,
                   profile_name, realtime_preview>>

(* ------------------- the user, outside the operators ------------------ *)
Idle == Did("user", "NONE")

\* names the user gives to objects made by hand
Lamp == Name(0, "Lamp", 0)

RtldCoolAmb == Name(1, "CoolAmb", 0)

\* the objects the user makes by hand: a light of their own, a light and a
\* mesh that carry the prefix, an empty
UserObjects ==
    {<<"LIGHT", Lamp>>, <<"LIGHT", RtldCoolAmb>>, <<"MESH", RtldCoolAmb>>, <<"EMPTY", Lamp>>}

\* the user adds an object to the scene by hand
UserAddObject(type, name) ==
    /\ <<type, name>> \in UserObjects
    /\ Len(objects) < MaxUserObjects
    /\ LET n == UniqueName(name, ObjectNames(objects)) IN
       objects' = Append(objects, IF type = "LIGHT" THEN NewLight(n, "POINT")
                                  ELSE NewOther(n, type))
    /\ last' = Idle
    /\ UNCHANGED <<lights, active_light_index, profiles,
                   profile_name, realtime_preview, edits>>

\* the user deletes an object in the viewport
UserDeleteObject(i) ==
    /\ edits < MaxEdits /\ i \in 1..Len(objects)
    /\ objects' = RemoveAt(objects, i)
    /\ edits' = edits + 1 /\ last' = Idle
    /\ UNCHANGED <<lights, active_light_index, profiles,
                   profile_name, realtime_preview>>

HostFields == {"color", "location"}

\* the value the user's edit gives a field; a host colour may exceed 1.0
Edited(field) ==
    CASE field = "color" -> <<200, 50, 0>>
      [] field = "energy" -> 70
      [] field = "location" -> <<10, 0, 0>>

\* the user edits a light object directly (properties editor, viewport)
UserEditObject(i, field) ==
    /\ edits < MaxEdits /\ i \in 1..Len(objects)
    /\ objects[i].type = "LIGHT" \/ field = "location"
    /\ objects' = [objects EXCEPT ![i][field] = Edited(field)]
    /\ edits' = edits + 1 /\ last' = Idle
    /\ UNCHANGED <<lights, active_light_index, profiles,
                   profile_name, realtime_preview>>

\* the user clicks a row of the managed-lights list (template_list)
UserSelect(i) ==
    /\ i \in 0..(Len(lights) - 1) /\ i # active_light_index
    /\ active_light_index' = i /\ last' = Idle
    /\ UNCHANGED <<objects, lights, profiles, profile_name,
                   realtime_preview, edits>>

\* the user retypes the name of a record (draw_item, panel "name" field)
UserRename(i, name) ==
    /\ edits < MaxEdits /\ i \in 1..Len(lights) /\ lights[i].name # name
    /\ lights' = [lights EXCEPT ![i].name = name]
    /\ edits' = edits + 1 /\ last' = Idle
    /\ UNCHANGED <<objects, active_light_index, profiles,
                   profile_name, realtime_preview>>

SpecFields == {"type", "energy"}

\* the user edits a field of the selected record in the panel
UserEditSpec(field, type) ==
    /\ edits < MaxEdits
    /\ 0 <= active_light_index /\ active_light_index < Len(lights)
    /\ LET i == active_light_index + 1 IN
       lights' = [lights EXCEPT ![i][field] =
                     CASE field = "type" -> type
                       [] field = "use_shadow" -> ~@
                       [] OTHER -> Edited(field)]
    /\ lights'[active_light_index + 1] # lights[active_light_index + 1]
    /\ edits' = edits + 1 /\ last' = Idle
    /\ UNCHANGED <<objects, active_light_index, profiles,
                   profile_name, realtime_preview>>

ProfileNames == {<<"NewProfile">>, <<" ", "Evening", " ">>, <<" ", " ">>}

\* the user types a profile name
UserSetProfileName(name) ==
    /\ edits < MaxEdits /\ name # profile_name
    /\ profile_name' = name
    /\ edits' = edits + 1 /\ last' = Idle
    /\ UNCHANGED <<objects, lights, active_light_index, profiles,
                   realtime_preview>>

\* the user ticks or unticks "Realtime Preview"
UserToggleRealtime ==
    /\ realtime_preview' = ~realtime_preview
    /\ last' = Idle
    /\ UNCHANGED <<objects, lights, active_light_index, profiles,
                   profile_name, edits>>

\* texts a stored data_json can be overwritten with from outside the panel:
\* one cut short, a number, a list holding a number, a list of one empty dict
Corruptions(text) ==
    {SubSeq(text, 1, Len(text) - 1), <<Num(42)>>, <<Tok("["), Num(1), Tok("]")>>,
     <<Tok("["), Dict(<<>>), Tok("]")>>}

\* the stored text of a profile is overwritten (a script, a hand edit)
UserCorruptProfile(i) ==
    /\ edits < MaxEdits /\ i \in 1..Len(profiles)
    /\ \E text \in Corruptions(profiles[i].data_json) :
          profiles' = [profiles EXCEPT ![i].data_json = text]
    /\ edits' = edits + 1 /\ last' = Idle
    /\ UNCHANGED <<objects, lights, active_light_index,
                   profile_name, realtime_preview>>

(* --------------------------- specification ---------------------------- *)
\* register(): an empty scene, the properties at their declared defaults
Init ==
    /\ objects = <<>>
    /\ lights = <<>>
    /\ active_light_index = 0
    /\ profiles = <<>>
    /\ profile_name = <<"NewProfile">>
    /\ realtime_preview = TRUE
    /\ last = Did("register", "NONE")
    /\ edits = 0

\* the light types add_light is run with (the panel's buttons pass POINT)
AddTypes == {"POINT"}

\* an operator or the hook runs: the user's budget is not touched
Op(A) == A /\ UNCHANGED edits

\* the presets run where profiles are saved too: one of two lights, one of one
SavedPresets == {"SUNSET", "COOL_AMBIENT"}

\* the operators alone, from the empty scene
NextOps ==
    \/ \E t \in AddTypes : Op(add_light(t))
    \/ Op(remove_light)
    \/ Op(sync_from_scene)
    \/ \E p \in SavedPresets : Op(apply_preset(p))
    \/ Op(save_profile)
    \/ \E i \in 0..MaxProfiles : Op(load_profile(i))
    \/ \E i \in 0..MaxProfiles : Op(delete_profile(i))

SpecOps == Init /\ [][NextOps]_vars

\* the scene and its mirror: the operators on lights, the hook, and the user
\* acting on the scene and on the panel
NextScene ==
    \/ \E t \in AddTypes : Op(add_light(t))
    \/ Op(remove_light)
    \/ Op(sync_from_scene)
    \/ Op(apply_light_props)
    \/ \E p \in Presets : Op(apply_preset(p))
    \/ Op(realtime_update)
    \/ \E o \in UserObjects : UserAddObject(o[1], o[2])
    \/ \E i \in 1..Len(objects) : UserDeleteObject(i)
    \/ \E i \in 1..Len(objects), f \in HostFields : UserEditObject(i, f)
    \/ \E i \in 0..(Len(lights) - 1) : UserSelect(i)
    \/ \E i \in 1..Len(lights), n \in ObjectNames(objects) \cup {Lamp} : UserRename(i, n)
    \/ \E f \in SpecFields, t \in LightTypes : UserEditSpec(f, t)
    \/ UserToggleRealtime

SpecScene == Init /\ [][NextScene]_vars

\* the profiles: lights are made, saved, loaded and deleted, the user edits
\* the scene, the profile name and the stored text
NextProfiles ==
    \/ \E t \in AddTypes : Op(add_light(t))
    \/ \E p \in SavedPresets : Op(apply_preset(p))
    \/ Op(save_profile)
    \/ \E i \in 0..MaxProfiles : Op(load_profile(i))
    \/ \E i \in 0..MaxProfiles : Op(delete_profile(i))
    \/ \E o \in UserObjects : UserAddObject(o[1], o[2])
    \/ \E i \in 1..Len(objects), f \in HostFields : UserEditObject(i, f)
    \/ \E n \in ProfileNames : UserSetProfileName(n)
    \/ \E i \in 1..Len(profiles) : UserCorruptProfile(i)

SpecProfiles == Init /\ [][NextProfiles]_vars

\* the operators that set the active index or change the list's length, with
\* save_profile to give load_profile something to load, and the user deleting
\* objects in the scene
NextIndex ==
    \/ \E t \in AddTypes : Op(add_light(t))
    \/ Op(remove_light)
    \/ Op(sync_from_scene)
    \/ \E p \in SavedPresets : Op(apply_preset(p))
    \/ Op(save_profile)
    \/ \E i \in 0..MaxProfiles : Op(load_profile(i))
    \/ \E i \in 1..Len(objects) : UserDeleteObject(i)

SpecIndex == Init /\ [][NextIndex]_vars

(* ------------------------------- claims ------------------------------- *)
\* what the run of load_profile that ended last read from its profile
LoadedItems == Iterated(JsonLoads(profiles[last.index + 1].data_json))

LoadFinished == last.op = "load_profile" /\ last.ret = "FINISHED"

\* C1: a profile written by save_profile and then loaded gives a managed-lights
\* list with as many records as were saved, in the same order, each with the
\* name, the light kind and the shadow flag of the record that was saved.
C1_SaveLoadRoundTrip ==
    LoadFinished =>
        /\ Len(lights) = Len(LoadedItems)
        /\ \A k \in 1..Len(lights) :
              /\ lights[k].name = ItemName(LoadedItems[k])
              /\ lights[k].type = ItemType(LoadedItems[k])
              /\ lights[k].use_shadow = ItemGet(LoadedItems[k], "use_shadow", TRUE)

RecordsNamed(name) == {k \in 1..Len(lights) : lights[k].name = name}

\* C10: from the empty scene, after any sequence of add_light, remove_light,
\* sync_from_scene, apply_preset, save_profile, load_profile and
\* delete_profile, every record names an RTLD_ light of the scene, every RTLD_
\* light of the scene is named by exactly one record, and no two records share
\* a name.
C10_MirrorMatchesHost ==
    /\ \A k \in 1..Len(lights) :
          \E i \in 1..Len(objects) :
             IsRtldLight(objects[i]) /\ objects[i].name = lights[k].name
    /\ \A i \in 1..Len(objects) :
          IsRtldLight(objects[i]) => Cardinality(RecordsNamed(objects[i].name)) = 1
    /\ \A k, m \in 1..Len(lights) : lights[k].name = lights[m].name => k = m

\* a loaded profile of several lights, one of them a name the host had to number
C10_Witness ==
    /\ Len(lights) >= 2
    /\ \E k \in 1..Len(lights) : lights[k].name.pre = 2
    /\ Len(profiles) = 2

(* C2 *)
\* the last n of a sequence, and what comes before them
LastN(seq, n) == SubSeq(seq, Len(seq) - n + 1, Len(seq))

ButLastN(seq, n) == SubSeq(seq, 1, Len(seq) - n)

\* the objects a finished load left in place
LoadKept == ButLastN(objects, Len(LoadedItems))

\* ob is an RTLD_ light with the kind and the values of a stored record, and
\* the record's name but for the prefix and the number the host gives it
MadeFromItem(ob, item) ==
    /\ IsRtldLight(ob)
    /\ ob.name.base = ItemName(item).base
    /\ ob.ltype = ItemType(item)
    /\ ob.color = ItemGet(item, "color", White)
    /\ ob.energy = ItemGet(item, "energy", DefaultEnergy)
    /\ ob.use_shadow = ItemGet(item, "use_shadow", TRUE)
    /\ ob.location = ItemGet(item, "location", Origin)
    /\ ob.rotation = ItemGet(item, "rotation", Origin)
    /\ HasAttr(ob.ltype, "size") => ob.size = ItemGet(item, "size", DefaultSize)
    /\ HasAttr(ob.ltype, "spot_size")
          => ob.spot_size = ItemGet(item, "spot_size", DefaultSpotSize)

\* objs ends with one light made of each of the items in order, ls mirrors them
Rebuilt(objs, ls, items) ==
    /\ Len(objs) >= Len(items)
    /\ \A made \in {LastN(objs, Len(items))} :
          /\ \A k \in 1..Len(items) : MadeFromItem(made[k], items[k])
          /\ ls = SpecsFromObjects(made)

\* C2 as stated: after a finished load of a profile of n records none of the
\* light objects the scene held remains and the scene holds exactly n light
\* objects, one made of each stored record in order; the managed-lights list
\* has exactly those n records and the active index is 0.
C2_AllLightsReplaced ==
    [][(last'.op = "load_profile" /\ last'.ret = "FINISHED") =>
          \A items \in {LoadedItems'} :
             /\ Rebuilt(objects', lights', items)
             /\ active_light_index' = 0
             /\ ButLastN(objects', Len(items)) = SelectSeq(objects, NotLight)
             /\ Len(SelectSeq(objects', IsLight)) = Len(items)]_vars

\* C2 amended: after a finished load of a profile of n records none of the
\* RTLD_ lights the scene held remains, every other object is as it was, and
\* the scene holds exactly n RTLD_ lights, one made of each stored record in
\* order; the managed-lights list has exactly those n records and the active
\* index is 0.
C2_RtldLightsReplaced ==
    [][(last'.op = "load_profile" /\ last'.ret = "FINISHED") =>
          \A items \in {LoadedItems'} :
             /\ Rebuilt(objects', lights', items)
             /\ active_light_index' = 0
             /\ ButLastN(objects', Len(items)) = SelectSeq(objects, NotRtldLight)
             /\ Len(find_rtld_lights(objects')) = Len(items)]_vars

\* a finished load of two records into a scene that kept a light of the user's
C2_Witness ==
    /\ LoadFinished
    /\ Len(LoadedItems) = 2
    /\ \E i \in 1..Len(LoadKept) : IsLight(LoadKept[i])

(* C3 *)
\* the step is a run of load_profile on a stored profile json.loads rejects
LoadOfBadJson ==
    /\ last'.op = "load_profile"
    /\ last'.index \in 0..(Len(profiles) - 1)
    /\ ~JsonLoads(profiles[last'.index + 1].data_json).ok

\* C3: when load_profile is run on a profile whose data_json does not parse,
\* an error is reported, the operator returns CANCELLED, and the scene's
\* objects, the managed-lights list, the active index and the profiles are
\* unchanged.
C3_BadJsonCancelled ==
    [][LoadOfBadJson =>
          /\ last'.ret = "CANCELLED" /\ last'.report = "ERROR"
          /\ UNCHANGED <<objects, lights, active_light_index, profiles>>]_vars

\* a cancelled load of a profile that does not parse, with a managed light in
\* the scene
C3_Witness ==
    /\ last.op = "load_profile" /\ last.ret = "CANCELLED" /\ last.report = "ERROR"
    /\ last.index \in 0..(Len(profiles) - 1)
    /\ ~JsonLoads(profiles[last.index + 1].data_json).ok
    /\ lights # <<>> /\ find_rtld_lights(objects) # <<>>

(* C4 *)
\* the host object carries the record's pushed values
Matches(ob, ls) ==
    /\ ob.color = ls.color /\ ob.energy = ls.energy /\ ob.use_shadow = ls.use_shadow
    /\ ob.location = ls.location /\ ob.rotation = ls.rotation
    /\ (IsLight(ob) /\ HasAttr(ob.ltype, "size")) => ob.size = ls.size
    /\ (IsLight(ob) /\ HasAttr(ob.ltype, "spot_size")) => ob.spot_size = ls.spot_size

\* the position of the last record of the list with this name, 0 if none
LastRecordNamed(name) ==
    IF RecordsNamed(name) = {} THEN 0
    ELSE CHOOSE k \in RecordsNamed(name) : \A m \in RecordsNamed(name) : m <= k

\* C4 as stated: after every run of realtime_update, for every record whose
\* name is that of a host object, the object's color, energy, shadow flag,
\* location and rotation (and size and spot angle where its kind has them)
\* equal the record's.
C4_HookPushesEveryRecord ==
    [][last'.op = "realtime_update" =>
          \A k \in 1..Len(lights') : \A j \in 1..Len(objects') :
             objects'[j].name = lights'[k].name => Matches(objects'[j], lights'[k])]_vars

\* C4 amended: a run of realtime_update leaves the list as it is and, with
\* realtime preview off, the scene too; with it on, every host light whose
\* name a record carries has the color, energy, shadow flag, location and
\* rotation (and size and spot angle where its kind has them) of the last
\* such record, and every other object is as it was.
C4_HookPushesLastRecordToLights ==
    [][last'.op = "realtime_update" =>
          /\ UNCHANGED lights
          /\ IF ~realtime_preview THEN UNCHANGED objects
             ELSE /\ Len(objects') = Len(objects)
                  /\ \A j \in 1..Len(objects) :
                        \A k \in {LastRecordNamed(objects[j].name)} :
                           IF IsLight(objects[j]) /\ k # 0
                           THEN /\ objects'[j].name = objects[j].name
                                /\ objects'[j].type = objects[j].type
                                /\ objects'[j].ltype = objects[j].ltype
                                /\ Matches(objects'[j], lights[k])
                           ELSE objects'[j] = objects[j]]_vars

\* a run of the hook that overwrote a value of a host light
C4_Witness ==
    /\ last.op = "realtime_update" /\ last.changed /\ realtime_preview
    /\ \E j \in 1..Len(objects) :
          /\ IsLight(objects[j]) /\ LastRecordNamed(objects[j].name) # 0
          /\ Matches(objects[j], lights[LastRecordNamed(objects[j].name)])

(* C5 *)
SpecKeys ==
    {"name", "type", "color", "energy", "size", "spot_size", "use_shadow",
     "location", "rotation"}

\* the stored item is a dict with the nine keys, each holding the record's value
ItemOfRecord(item, ls) ==
    /\ item.kind = "object"
    /\ \A key \in SpecKeys : HasKey(item, key) /\ ItemGet(item, key, 0) = ls[key]

\* the stored item carries the host light's name, kind and values
ItemOfLight(item, ob) ==
    /\ item.kind = "object"
    /\ ItemName(item) = ob.name /\ ItemType(item) = ob.ltype
    /\ Matches(ob, [color |-> ItemGet(item, "color", 0),
                    energy |-> ItemGet(item, "energy", 0),
                    use_shadow |-> ItemGet(item, "use_shadow", 0),
                    location |-> ItemGet(item, "location", 0),
                    rotation |-> ItemGet(item, "rotation", 0),
                    size |-> ItemGet(item, "size", 0),
                    spot_size |-> ItemGet(item, "spot_size", 0)])

\* the step is a run of save_profile with a name that is not blank
SaveOfNamed == last'.op = "save_profile" /\ Strip(profile_name) # <<>>

\* one profile was appended, the earlier ones, the list and the scene are as
\* they were
SaveAppendedOne ==
    /\ last'.ret = "FINISHED"
    /\ Len(profiles') = Len(profiles) + 1
    /\ ButLastN(profiles', 1) = profiles
    /\ profiles'[Len(profiles')].name = Strip(profile_name)
    /\ UNCHANGED <<lights, objects>>

PresetCount(preset) ==
    CASE preset = "THREE_POINT" -> 3
      [] preset = "CINEMATIC" -> 3
      [] preset = "SUNSET" -> 2
      [] preset = "STUDIO" -> 3
      [] preset = "COOL_AMBIENT" -> 1

\* the scene's RTLD_ lights rtld are the recipe's in number, order and kind,
\* the list mirrors them, the first is selected, and nothing else was touched
PresetApplied(rtld, rs) ==
    /\ Len(rtld) = Len(rs) /\ Len(rs) = PresetCount(last'.preset)
    /\ \A k \in 1..Len(rs) :
          /\ rtld[k].name.pre = 1 /\ rtld[k].name.base = rs[k].base
          /\ rtld[k].ltype = rs[k].ltype
    /\ lights' = SpecsFromObjects(rtld)
    /\ active_light_index' = 0
    /\ SelectSeq(objects', NotRtldLight) = SelectSeq(objects, NotRtldLight)

\* a second run of the same preset right after the first changes nothing
PresetTwiceIsOnce ==
    (last.op = "apply_preset" /\ last'.op = "apply_preset" /\ last'.preset = last.preset)
        => UNCHANGED <<objects, lights, active_light_index>>

\* C6 as stated: apply_preset(p), from any state, leaves exactly the RTLD_
\* lights of p's recipe (3, 3, 2, 3, 1 of them) with the recipe's names and
\* kinds, the list holding them in recipe order, the active index 0; applying
\* the same preset again gives the same state.
C6_PresetGivesRecipeNames ==
    [][/\ last'.op = "apply_preset" =>
             \A rtld \in {find_rtld_lights(objects')} :
                /\ PresetApplied(rtld, PresetRecipe(last'.preset))
                /\ \A k \in 1..Len(rtld) : rtld[k].name.num = 0
       /\ PresetTwiceIsOnce]_vars

\* C6 amended: apply_preset(p), from any state, leaves exactly the RTLD_
\* lights of p's recipe (3, 3, 2, 3, 1 of them) with the recipe's kinds and
\* the recipe's names, a name getting the host's number only where an object
\* that is not an RTLD_ light holds it; the list holds them in recipe order,
\* the active index is 0, every other object is as it was; applying the same
\* preset again gives the same state.
C6_PresetGivesRecipeLights ==
    [][/\ last'.op = "apply_preset" =>
             \A rtld \in {find_rtld_lights(objects')} :
                /\ PresetApplied(rtld, PresetRecipe(last'.preset))
                /\ \A k \in 1..Len(rtld) :
                      \/ rtld[k].name.num = 0
                      \/ \E j \in 1..Len(objects) :
                            /\ NotRtldLight(objects[j])
                            /\ objects[j].name = [rtld[k].name EXCEPT !.num = 0]
       /\ PresetTwiceIsOnce]_vars

\* a preset applied where a mesh holds the name of one of its lights
C6_Witness ==
    /\ last.op = "apply_preset" /\ last.preset = "COOL_AMBIENT"
    /\ \E i \in 1..Len(objects) : IsRtldLight(objects[i]) /\ objects[i].name.num # 0
    /\ \E j \in 1..Len(objects) : NotRtldLight(objects[j]) /\ objects[j].name = RtldCoolAmb

(* C7 *)
\* what a run of apply_light_props on record spec, whose name is that of
\* object j (0: of no object), leaves behind
PropsApplied(spec, j) ==
    /\ UNCHANGED <<lights, active_light_index>>
    /\ j = 0 => (last'.ret = "CANCELLED" /\ UNCHANGED objects)
    /\ (j # 0 /\ IsLight(objects[j])) =>
          /\ last'.ret = "FINISHED"
          /\ Len(objects') = Len(objects)
          /\ \A i \in 1..Len(objects) : i # j => objects'[i] = objects[i]
          /\ objects'[j].name = spec.name /\ objects'[j].ltype = spec.type
          /\ objects'[j].color = spec.color /\ objects'[j].energy = spec.energy
          /\ objects'[j].use_shadow = spec.use_shadow
          /\ objects'[j].location = spec.location
          /\ objects'[j].rotation = spec.rotation
          /\ \A attr \in {"size", "spot_size"} :
                (~HasAttr(objects[j].ltype, attr) /\ ~HasAttr(spec.type, attr))
                    => objects'[j][attr] = objects[j][attr]

\* C7: apply_light_props on a managed light whose kind lacks size or spot
\* angle drops that assignment, still returns FINISHED and leaves the host
\* light with the record's kind, color, energy, shadow flag, location and
\* rotation; when no host object has the record's name it returns CANCELLED
\* and changes nothing.
C7_InapplicableAttrsDiscarded ==
    [][last'.op = "apply_light_props" =>
          \A spec \in {lights[active_light_index + 1]} :
             PropsApplied(spec, ObjectIndex(objects, spec.name))]_vars

\* a finished apply onto a point light, which has neither attribute, that
\* gave the light a value it did not have
C7_Witness ==
    /\ last.op = "apply_light_props" /\ last.ret = "FINISHED" /\ last.changed
    /\ 0 <= active_light_index /\ active_light_index < Len(lights)
    /\ lights[active_light_index + 1].type = "POINT"
    /\ \E j \in 1..Len(objects) :
          /\ objects[j].name = lights[active_light_index + 1].name
          /\ IsLight(objects[j]) /\ objects[j].ltype = "POINT"

(* C8 *)
\* C8: in every reachable state, a record's name edited in the panel or not,
\* a run of remove_light deletes at most one host object, and only an RTLD_
\* light: the scene afterwards is the scene before, or the scene before
\* without one of its RTLD_ lights.
C8_RemovesOnlyRtldLight ==
    [][last'.op = "remove_light" =>
          \/ objects' = objects
          \/ \E j \in 1..Len(objects) :
                IsRtldLight(objects[j]) /\ objects' = RemoveAt(objects, j)]_vars

(* C9 *)
\* C9: after sync_from_scene the managed-lights list holds exactly one record
\* for each RTLD_ light of the scene, in scene order, and none for anything
\* else, each with the host light's name, kind and current values (color,
\* energy, shadow flag, location, rotation, and size and spot angle where the
\* kind has them); the scene is untouched.
C9_SyncMirrorsRtldLights ==
    [][last'.op = "sync_from_scene" =>
          \A rtld \in {find_rtld_lights(objects)} :
             /\ UNCHANGED objects
             /\ Len(lights') = Len(rtld)
             /\ \A k \in 1..Len(rtld) :
                   /\ lights'[k].name = rtld[k].name
                   /\ lights'[k].type = rtld[k].ltype
                   /\ Matches(rtld[k], lights'[k])]_vars

(* C11 *)
\* C11: after any sequence of add_light, remove_light, sync_from_scene,
\* apply_preset and load_profile, the user deleting host lights in between,
\* the active index is a position of the managed-lights list while the list
\* is not empty, and 0 while it is empty.
C11_ActiveIndexInRange ==
    IF lights = <<>> THEN active_light_index = 0
    ELSE 0 <= active_light_index /\ active_light_index < Len(lights)

(* C12 *)
\* C12: for every stored text, a run of load_profile either does not complete
\* (CANCELLED, or it raises) and leaves the scene's RTLD_ lights and the
\* managed-lights list exactly as they were, or returns FINISHED with the
\* RTLD_ lights and the list rebuilt from the stored array, one of each
\* stored record in order.
C12_LoadAllOrNothing ==
    [][last'.op = "load_profile" =>
          \/ /\ last'.ret # "FINISHED"
             /\ find_rtld_lights(objects') = find_rtld_lights(objects)
             /\ lights' = lights
          \/ /\ last'.ret = "FINISHED"
             /\ \A items \in {LoadedItems'} :
                   /\ Rebuilt(objects', lights', items)
                   /\ Len(find_rtld_lights(objects')) = Len(items)]_vars

====
